---------------------------- MODULE Spec2Model ----------------------------
(***************************************************************************)
(* A model of the SimpleGet plugin sources:                                *)
(*   - SimpleGetPlugin::callApplication (simpleGetPlugin.cc), the process  *)
(*     launcher, under every combination of the OS_* build macros;         *)
(*   - NP_GetValue (plugin.cc), the NPAPI metadata responder;              *)
(*   - class Complex (nixysa/examples/complex/complex.h).                  *)
(* C++ strings handed to the operating system are sequences of one-        *)
(* character strings, so that concatenation is computed, not assumed.      *)
(* The three components share no state; each has its own specification     *)
(* (Spec, SpecNP, SpecComplex) that leaves the other components idle.      *)
(***************************************************************************)
EXTENDS Integers, Sequences, FiniteSets

VARIABLES
    build,              \* the OS_* macros the build defines
    pc,                 \* position of the call inside callApplication
    callerApplication,  \* the caller's argument string objects
    callerParameters,
    application,        \* callApplication's by-value copies
    parameters,
    requests,           \* process-spawn requests issued by the current call
    children,           \* fate of the process each request asked for
    status,             \* the std::string returned by the last call
    calls,              \* number of calls made so far
    npValue,            \* the location NP_GetValue's value argument points to
    npError,            \* NP_GetValue's last return value
    npVariable,         \* NP_GetValue's last variable argument
    npInstance,         \* NP_GetValue's last instance argument
    npCalls,            \* number of NP_GetValue calls made so far
    cx,                 \* the Complex objects: real_ and imaginary_ of each
    cxLastReal,         \* value last given to real_: by the constructor or set_real
    cxLastImaginary,    \* value last given to imaginary_, likewise
    cxSetters,          \* the objects a setter has been called on
    cxResult            \* the Complex returned by the latest add or mul

launcherVars == <<build, pc, callerApplication, callerParameters, application,
                  parameters, requests, children, status, calls>>
npVars == <<npValue, npError, npVariable, npInstance, npCalls>>
cxVars == <<cx, cxLastReal, cxLastImaginary, cxSetters, cxResult>>
vars == <<launcherVars, npVars, cxVars>>

---------------------------------------------------------------------------
(* Bounds *)

MaxParamLen == 2
MaxCalls == 2
MaxNPCalls == 3
MaxFloat == 1

---------------------------------------------------------------------------
(* Strings *)

Alphabet == {"a", " ", "#"}

RECURSIVE StringsUpTo(_)
StringsUpTo(n) ==
    IF n = 0 THEN {<<>>}
    ELSE LET S == StringsUpTo(n - 1)
         IN  S \cup {Append(s, ch) : s \in {t \in S : Len(t) = n - 1}, ch \in Alphabet}

NotepadExe == <<"n","o","t","e","p","a","d",".","e","x","e">>
FileTxt == <<"f","i","l","e",".","t","x","t">>

Applications == {<<"a">>, NotepadExe}
Parameters == StringsUpTo(MaxParamLen) \cup {FileTxt}

---------------------------------------------------------------------------
(* simpleGetPlugin.cc *)

MSG_OK == ""
MSG_NO_COMMAND_PROCESSOR == "the sytem does not support command invocation"
MSG_INVALID_COMMAND == "invalid command"
NoStatus == "(no call has returned)"

OSMacros == {"OS_WINDOWS", "OS_LINUX", "OS_MACOSX"}

\* #ifdef OS_WINDOWS
WindowsEnabled == "OS_WINDOWS" \in build

\* Variant of the POSIX guard that forgets OS_MACOSX.
PosixEnabledLinuxOnly == "OS_LINUX" \in build
\* #if defined OS_LINUX || defined OS_MACOSX
PosixEnabled == "OS_LINUX" \in build \/ "OS_MACOSX" \in build

\* Variant of line 43 without the leading space.
WinParametersNoSpace(p) == p
\* parameters = " " + parameters;
WinParameters(p) == <<" ">> \o p

\* Variant of line 44 that passes one joined command line and no application name.
CreateProcessJoined(app, par) ==
    [api |-> "CreateProcess", lpApplicationName |-> <<>>, command |-> app \o par]
\* CreateProcess((char *) application.c_str(), (char *) parameters.c_str(), ...)
CreateProcessRequest(app, par) ==
    [api |-> "CreateProcess", lpApplicationName |-> app, command |-> par]

\* Variant of line 48 that drops a leading space of parameters.
PosixCommandTrimmed(app, par) ==
    LET first == IF par # <<>> /\ Head(par) = " " THEN Tail(par) ELSE par
    IN  app \o <<" ">> \o first \o <<" ", "&">>
\* application + " " + parameters + " &"
PosixCommand(app, par) == app \o <<" ">> \o par \o <<" ", "&">>

\* system(cmd.c_str())
SystemRequest(cmd) == [api |-> "system", lpApplicationName |-> <<>>, command |-> cmd]

(* What the command language interpreter started by system() does with the *)
(* command: a "#" that begins a word starts a comment running to the end   *)
(* of the line, and the command is run asynchronously only if the line     *)
(* that is left ends with the "&" operator.  system() returns when the     *)
(* interpreter has terminated, which for a command run synchronously is    *)
(* when the command has terminated.                                        *)
CommentStarts(cmd) ==
    {i \in 1..Len(cmd) : cmd[i] = "#" /\ (i = 1 \/ cmd[i - 1] = " ")}
ShellEffective(cmd) ==
    IF CommentStarts(cmd) = {} THEN cmd
    ELSE SubSeq(cmd, 1, (CHOOSE i \in CommentStarts(cmd) :
                             \A j \in CommentStarts(cmd) : i <= j) - 1)
ShellBackground(cmd) ==
    LET e == ShellEffective(cmd)
        nonblank == {i \in 1..Len(e) : e[i] # " "}
    IN  nonblank # {} /\ e[CHOOSE i \in nonblank : \A j \in nonblank : j <= i] = "&"

\* The outcome of a request: the process runs, or could not be created.
SpawnOutcomes == {"running", "failed"}

\* system() has not returned: the interpreter waits for a running command.
SystemBlocked ==
    /\ pc = "line48"
    /\ ~ShellBackground(requests[Len(requests)].command)
    /\ children[Len(children)] = "running"

\* Variant of line 51 with the check of lines 34-35 in force.
ReturnStatusChecked ==
    IF \E i \in 1..Len(children) : children[i] = "failed"
    THEN MSG_INVALID_COMMAND ELSE MSG_OK
\* return MSG_OK;
ReturnStatus == MSG_OK

LauncherInit ==
    /\ build \in SUBSET OSMacros
    /\ pc = "idle"
    /\ callerApplication = <<>>
    /\ callerParameters = <<>>
    /\ application = <<>>
    /\ parameters = <<>>
    /\ requests = <<>>
    /\ children = <<>>
    /\ status = NoStatus
    /\ calls = 0

\* The host calls callApplication(a, p): the arguments are copied.
Call(a, p) ==
    /\ pc \in {"idle", "returned"}
    /\ calls < MaxCalls
    /\ calls' = calls + 1
    /\ callerApplication' = a
    /\ callerParameters' = p
    /\ application' = a
    /\ parameters' = p
    /\ requests' = <<>>
    /\ children' = <<>>
    /\ status' = NoStatus
    /\ pc' = "line37"
    /\ UNCHANGED <<build, npVars, cxVars>>

\* Variant of the OS_WINDOWS block with parameters taken by reference.
WindowsBranchByReference ==
    /\ pc = "line37"
    /\ pc' = "line47"
    /\ IF WindowsEnabled
       THEN /\ parameters' = WinParameters(parameters)
            /\ callerParameters' = WinParameters(parameters)
            /\ requests' = Append(requests, CreateProcessRequest(application, parameters'))
            /\ \E o \in SpawnOutcomes : children' = Append(children, o)
       ELSE UNCHANGED <<parameters, callerParameters, requests, children>>
    /\ UNCHANGED <<build, callerApplication, application, status, calls,
                   npVars, cxVars>>

\* Lines 37-45: the OS_WINDOWS block.
WindowsBranch ==
    /\ pc = "line37"
    /\ pc' = "line47"
    /\ IF WindowsEnabled
       THEN /\ parameters' = WinParameters(parameters)
            /\ requests' = Append(requests, CreateProcessRequest(application, parameters'))
            /\ \E o \in SpawnOutcomes : children' = Append(children, o)
       ELSE UNCHANGED <<parameters, requests, children>>
    /\ UNCHANGED <<build, callerApplication, callerParameters, application,
                   status, calls, npVars, cxVars>>

\* Lines 47-49: the OS_LINUX / OS_MACOSX block enters system().
PosixBranch ==
    /\ pc = "line47"
    /\ IF PosixEnabled
       THEN /\ requests' = Append(requests, SystemRequest(PosixCommand(application, parameters)))
            /\ \E o \in SpawnOutcomes : children' = Append(children, o)
            /\ pc' = "line48"
       ELSE /\ UNCHANGED <<requests, children>>
            /\ pc' = "line51"
    /\ UNCHANGED <<build, callerApplication, callerParameters, application,
                   parameters, status, calls, npVars, cxVars>>

\* system() returns.
SystemReturns ==
    /\ pc = "line48"
    /\ ~SystemBlocked
    /\ pc' = "line51"
    /\ UNCHANGED <<build, callerApplication, callerParameters, application,
                   parameters, requests, children, status, calls, npVars, cxVars>>

\* Line 51.
Return ==
    /\ pc = "line51"
    /\ status' = ReturnStatus
    /\ pc' = "returned"
    /\ UNCHANGED <<build, callerApplication, callerParameters, application,
                   parameters, requests, children, calls, npVars, cxVars>>

\* A launched process terminates, at a time of its own choosing.
ChildExits(i) ==
    /\ i \in 1..Len(children)
    /\ children[i] = "running"
    /\ children' = [children EXCEPT ![i] = "exited"]
    /\ UNCHANGED <<build, pc, callerApplication, callerParameters, application,
                   parameters, requests, status, calls, npVars, cxVars>>

---------------------------------------------------------------------------
(* plugin.cc *)

NPPVpluginNameString == "NPPVpluginNameString"
NPPVpluginDescriptionString == "NPPVpluginDescriptionString"
NPPVariables == {NPPVpluginNameString, NPPVpluginDescriptionString,
                 "NPPVpluginWindowBool", "NPPVpluginTransparentBool",
                 "NPPVpluginScriptableNPObject"}
NPERR_NO_ERROR == "NPERR_NO_ERROR"
NPERR_INVALID_PARAM == "NPERR_INVALID_PARAM"
NoError == "(no call has returned)"

\* The instance argument: NULL or one of two plugin instances.
Instances == {"NULL", "instance1", "instance2"}
\* What the location holds before the plugin stores anything into it.
InitialValues == {"(null)", "(stale)"}

\* Variant of the name string of line 27.
PluginNameOther == "Simple Get"
PluginName == "Simple Get Plugin"
PluginDescription == "Connects the Simple Get extesion to the download managers"

NP_GetMIMEDescription ==
    "application/x-simplegetplugin::Connects the Simple Get extesion to the download managers"

NPInit ==
    /\ npValue \in InitialValues
    /\ npError = NoError
    /\ npVariable = "(none)"
    /\ npInstance = "NULL"
    /\ npCalls = 0

\* Variant of NP_GetValue whose default case stores a null pointer.
NP_GetValueClobbers(instance, variable) ==
    /\ npCalls < MaxNPCalls
    /\ npCalls' = npCalls + 1
    /\ npInstance' = instance
    /\ npVariable' = variable
    /\ IF variable = NPPVpluginNameString
       THEN npValue' = PluginName /\ npError' = NPERR_NO_ERROR
       ELSE IF variable = NPPVpluginDescriptionString
       THEN npValue' = PluginDescription /\ npError' = NPERR_NO_ERROR
       ELSE npValue' = "(null)" /\ npError' = NPERR_INVALID_PARAM
    /\ UNCHANGED <<launcherVars, cxVars>>

\* NPError NP_GetValue(NPP instance, NPPVariable variable, void *value)
NP_GetValue(instance, variable) ==
    /\ npCalls < MaxNPCalls
    /\ npCalls' = npCalls + 1
    /\ npInstance' = instance
    /\ npVariable' = variable
    /\ IF variable = NPPVpluginNameString
       THEN npValue' = PluginName /\ npError' = NPERR_NO_ERROR
       ELSE IF variable = NPPVpluginDescriptionString
       THEN npValue' = PluginDescription /\ npError' = NPERR_NO_ERROR
       ELSE npValue' = npValue /\ npError' = NPERR_INVALID_PARAM
    /\ UNCHANGED <<launcherVars, cxVars>>

---------------------------------------------------------------------------
(* complex.h *)

\* The float values used; sums and products of them are exact in float.
Floats == (0 - MaxFloat)..MaxFloat
Objects == {"z", "w"}
\* No add or mul has returned yet; afterwards cxResult is <<the Complex returned>>.
NoResult == <<>>
DefaultCtor == <<"default">>
Constructors == {DefaultCtor} \cup (Floats \X Floats)

\* Complex() : real_(0.f), imaginary_(0.f)
ComplexDefault == [real_ |-> 0, imaginary_ |-> 0]
\* Complex(float real, float imaginary)
ComplexOf(r, i) == [real_ |-> r, imaginary_ |-> i]

Construct(c) == IF c = DefaultCtor THEN ComplexDefault ELSE ComplexOf(c[1], c[2])
\* The values the constructor call c was given (0 and 0 for the default one).
CtorReal(c) == IF c = DefaultCtor THEN 0 ELSE c[1]
CtorImaginary(c) == IF c = DefaultCtor THEN 0 ELSE c[2]

\* float real() const
real(o) == cx[o].real_
\* float imaginary() const
imaginary(o) == cx[o].imaginary_

CxInit ==
    \E c \in [Objects -> Constructors] :
        /\ cx = [o \in Objects |-> Construct(c[o])]
        /\ cxLastReal = [o \in Objects |-> CtorReal(c[o])]
        /\ cxLastImaginary = [o \in Objects |-> CtorImaginary(c[o])]
        /\ cxSetters = {}
        /\ cxResult = NoResult

\* Variant of set_real that assigns both members.
set_realBoth(o, value) ==
    /\ cx' = [cx EXCEPT ![o] = [real_ |-> value, imaginary_ |-> value]]
    /\ cxLastReal' = [cxLastReal EXCEPT ![o] = value]
    /\ cxSetters' = cxSetters \cup {o}
    /\ UNCHANGED <<cxLastImaginary, cxResult, launcherVars, npVars>>

\* void set_real(float value) { real_ = value; }
set_real(o, value) ==
    /\ cx' = [cx EXCEPT ![o].real_ = value]
    /\ cxLastReal' = [cxLastReal EXCEPT ![o] = value]
    /\ cxSetters' = cxSetters \cup {o}
    /\ UNCHANGED <<cxLastImaginary, cxResult, launcherVars, npVars>>

\* void set_imaginary(float value) { imaginary_ = value; }
set_imaginary(o, value) ==
    /\ cx' = [cx EXCEPT ![o].imaginary_ = value]
    /\ cxLastImaginary' = [cxLastImaginary EXCEPT ![o] = value]
    /\ cxSetters' = cxSetters \cup {o}
    /\ UNCHANGED <<cxLastReal, cxResult, launcherVars, npVars>>

\* Complex add(const Complex &other)
add(o, other) ==
    /\ cxResult' = <<ComplexOf(cx[o].real_ + cx[other].real_,
                             cx[o].imaginary_ + cx[other].imaginary_)>>
    /\ UNCHANGED <<cx, cxLastReal, cxLastImaginary, cxSetters, launcherVars, npVars>>

\* Complex mul(const Complex &other)
mul(o, other) ==
    /\ cxResult' = <<ComplexOf(cx[o].real_ * cx[other].real_
                               - cx[o].imaginary_ * cx[other].imaginary_,
                             cx[o].real_ * cx[other].imaginary_
                               + cx[o].imaginary_ * cx[other].real_)>>
    /\ UNCHANGED <<cx, cxLastReal, cxLastImaginary, cxSetters, launcherVars, npVars>>

---------------------------------------------------------------------------
(* Specifications *)

\* The components a specification leaves idle.
NPIdle == NPInit /\ npValue = "(null)"
CxIdle == CxInit /\ cx = [o \in Objects |-> ComplexDefault]
LauncherIdle == LauncherInit /\ build = {}

Init == LauncherInit /\ NPIdle /\ CxIdle

Next ==
    \/ \E a \in Applications, p \in Parameters : Call(a, p)
    \/ WindowsBranch
    \/ PosixBranch
    \/ SystemReturns
    \/ Return
    \/ \E i \in 1..Len(children) : ChildExits(i)

Spec == Init /\ [][Next]_vars

InitNP == LauncherIdle /\ NPInit /\ CxIdle

NextNP == \E i \in Instances, v \in NPPVariables : NP_GetValue(i, v)

SpecNP == InitNP /\ [][NextNP]_vars

InitComplex == LauncherIdle /\ NPIdle /\ CxInit

NextComplex ==
    \/ \E o \in Objects, v \in Floats : set_real(o, v)
    \/ \E o \in Objects, v \in Floats : set_imaginary(o, v)
    \/ \E o \in Objects, p \in Objects : add(o, p)
    \/ \E o \in Objects, p \in Objects : mul(o, p)

SpecComplex == InitComplex /\ [][NextComplex]_vars

---------------------------------------------------------------------------
(* Properties of callApplication, under Spec *)

\* A call has gone past the OS_WINDOWS block / past the POSIX block.
PastWindowsBlock == pc \in {"line47", "line48", "line51", "returned"}
PastPosixBlock == pc \in {"line48", "line51", "returned"}
\* What the build defines, read off the build itself.
DefinesWindows == "OS_WINDOWS" \in build
DefinesPosix == build \cap {"OS_LINUX", "OS_MACOSX"} # {}
\* A build for a POSIX platform: OS_LINUX or OS_MACOSX, and not OS_WINDOWS.
PosixBuild == DefinesPosix /\ ~DefinesWindows
SystemRequests == {i \in 1..Len(requests) : requests[i].api = "system"}
CreateProcessRequests == {i \in 1..Len(requests) : requests[i].api = "CreateProcess"}

\* C1: every call that returns returns the OK status "", whether or not the
\* spawn succeeded, and the two other messages are never the status.
C1_AlwaysReturnsOK ==
    /\ pc = "returned" => status = ""
    /\ status \notin {MSG_NO_COMMAND_PROCESSOR, MSG_INVALID_COMMAND}

\* A call has returned although the process could not be created.
C1_Witness ==
    /\ pc = "returned"
    /\ status = ""
    /\ \E i \in 1..Len(children) : children[i] = "failed"

\* C2: on a POSIX build the string handed to system() is
\* application + " " + parameters + " &", with both inputs verbatim.
C2_PosixCommandString ==
    (PosixBuild /\ PastPosixBlock) =>
        /\ SystemRequests # {}
        /\ \A i \in SystemRequests :
              requests[i].command =
                  callerApplication \o <<" ">> \o callerParameters \o <<" ", "&">>

\* A POSIX call whose parameters begin with a space and hold a "#".
C2_Witness ==
    /\ PosixBuild
    /\ pc = "returned"
    /\ callerParameters = <<" ", "#">>
    /\ requests[1].command = <<"a", " ", " ", "#", " ", "&">>

\* C3: on a Windows build the command line passed to CreateProcess is
\* " " + parameters and the application name is application, unchanged.
C3_WindowsParameterString ==
    (DefinesWindows /\ PastWindowsBlock) =>
        /\ CreateProcessRequests # {}
        /\ \A i \in CreateProcessRequests :
              /\ requests[i].command = <<" ">> \o callerParameters
              /\ requests[i].lpApplicationName = callerApplication

\* A Windows call with non-empty parameters has issued its CreateProcess.
C3_Witness ==
    /\ DefinesWindows
    /\ pc = "returned"
    /\ callerParameters = <<"a", " ">>
    /\ requests[1].command = <<" ", "a", " ">>

\* The call launch("notepad.exe", "file.txt") on Windows has returned.
NotepadScenario ==
    /\ DefinesWindows
    /\ pc = "returned"
    /\ callerApplication = NotepadExe
    /\ callerParameters = FileTxt

\* C4 as stated: launch("notepad.exe", "file.txt") on Windows gives process
\* creation the command line "notepad.exe  file.txt" and returns "".
C4_CommandLineHoldsApplication ==
    NotepadScenario =>
        /\ requests[1].command =
              <<"n","o","t","e","p","a","d",".","e","x","e"," "," ",
                "f","i","l","e",".","t","x","t">>
        /\ status = ""

\* C4 amended: process creation is given the application name "notepad.exe"
\* and the command line " file.txt" (one leading space, no application in
\* it), and the call returns "".
C4_NotepadScenario ==
    NotepadScenario =>
        /\ requests[1].api = "CreateProcess"
        /\ requests[1].lpApplicationName =
              <<"n","o","t","e","p","a","d",".","e","x","e">>
        /\ requests[1].command = <<" ","f","i","l","e",".","t","x","t">>
        /\ status = ""

C4_Witness == NotepadScenario /\ Len(requests) >= 1

\* C5 as stated: every call has issued exactly one spawn request when it
\* returns, whatever OS_* macros the build defines.
C5_ExactlyOneSpawn == pc = "returned" => Len(requests) = 1

\* C5 amended: a call issues one spawn request per platform family the build
\* defines: exactly one when it defines a single family, none when it defines
\* no OS_* macro, two when it defines OS_WINDOWS and a POSIX macro.
C5_OneSpawnPerFamily ==
    pc = "returned" =>
        /\ (DefinesWindows /\ ~DefinesPosix) => Len(requests) = 1
        /\ (~DefinesWindows /\ DefinesPosix) => Len(requests) = 1
        /\ (~DefinesWindows /\ ~DefinesPosix) => Len(requests) = 0
        /\ (DefinesWindows /\ DefinesPosix) =>
              /\ Len(requests) = 2
              /\ requests[1].api = "CreateProcess"
              /\ requests[2].api = "system"

\* A call of a build defining only OS_MACOSX has returned with its one request.
C5_Witness ==
    /\ pc = "returned"
    /\ build = {"OS_MACOSX"}
    /\ Len(requests) = 1

\* C6: a call never waits for a launched application: whatever the
\* children do, a call in progress can take its next step.
C6_NeverAwaitsChild ==
    pc \notin {"idle", "returned"} =>
        ENABLED (WindowsBranch \/ PosixBranch \/ SystemReturns \/ Return)

\* C8: across a sequence of calls, the requests issued and the status
\* returned by a call are a function of its own arguments and the build, and
\* the caller's argument strings are not modified while the call runs.
C8_CallsIndependent ==
    /\ [](pc = "returned" =>
            /\ status = ""
            /\ requests =
                 (IF DefinesWindows
                  THEN <<[api |-> "CreateProcess",
                          lpApplicationName |-> callerApplication,
                          command |-> <<" ">> \o callerParameters]>>
                  ELSE <<>>)
                 \o
                 (IF DefinesPosix
                  THEN <<[api |-> "system",
                          lpApplicationName |-> <<>>,
                          command |-> callerApplication \o <<" ">>
                                      \o (IF DefinesWindows THEN <<" ">> ELSE <<>>)
                                      \o callerParameters \o <<" ", "&">>]>>
                  ELSE <<>>))
    /\ [][pc \notin {"idle", "returned"} =>
            /\ callerApplication' = callerApplication
            /\ callerParameters' = callerParameters]_vars

\* A second call, on Windows, has returned: its copy of parameters has the
\* leading space, the caller's string does not.
C8_Witness ==
    /\ calls = 2
    /\ pc = "returned"
    /\ DefinesWindows
    /\ parameters = <<" ">> \o callerParameters
    /\ callerParameters = <<"#">>

---------------------------------------------------------------------------
(* Properties of NP_GetValue, under SpecNP *)

\* C7: for the name variable *value is "Simple Get Plugin", for the
\* description variable it is the description, and the call returns
\* NPERR_NO_ERROR, whatever the instance and whatever calls came before.
C7_ReportsMetadata ==
    /\ npVariable = NPPVpluginNameString =>
          npValue = "Simple Get Plugin" /\ npError = NPERR_NO_ERROR
    /\ npVariable = NPPVpluginDescriptionString =>
          /\ npValue = "Connects the Simple Get extesion to the download managers"
          /\ npError = NPERR_NO_ERROR

\* The name was asked for an instance after earlier calls.
C7_Witness ==
    /\ npCalls = MaxNPCalls
    /\ npInstance = "instance2"
    /\ npVariable = NPPVpluginNameString
    /\ npValue = "Simple Get Plugin"

\* C9: a call with any other variable returns NPERR_INVALID_PARAM and
\* leaves *value as it was.
C9_OtherVariableRejected ==
    [][(npCalls' # npCalls
          /\ npVariable' \notin {NPPVpluginNameString, NPPVpluginDescriptionString})
        => (npError' = NPERR_INVALID_PARAM /\ npValue' = npValue)]_vars

\* A call with another variable was rejected after a call had stored the
\* name: the name is still there.
C9_Witness ==
    /\ npVariable = "NPPVpluginWindowBool"
    /\ npError = NPERR_INVALID_PARAM
    /\ npValue = "Simple Get Plugin"

---------------------------------------------------------------------------
(* Properties of Complex, under SpecComplex *)

\* C10: after any sequence of set_real, set_imaginary, add and mul, real()
\* is the argument of the latest set_real (or the constructor's real value)
\* and imaginary() is the argument of the latest set_imaginary (or the
\* constructor's imaginary value).
C10_ComponentsKeepLastSet ==
    \A o \in Objects :
        /\ real(o) = cxLastReal[o]
        /\ imaginary(o) = cxLastImaginary[o]

\* Setters were called on both objects, add or mul returned a value, and the
\* two components of an object differ.
C10_Witness ==
    /\ cxSetters = Objects
    /\ cxResult # NoResult
    /\ cxResult[1].real_ # 0
    /\ \E o \in Objects : real(o) # imaginary(o)

=============================================================================
